---- MODULE Spec2Model ----
\* Model of btc-semantic-analysis: the daily aggregator, the sentiment scorer,
\* the pipelines' window computation, the Telegram adapter's fetches, the ingest
\* pipelines, the Binance price adapter and the price-overlay pipeline.
EXTENDS Integers, Sequences, FiniteSets, TLC

VARIABLES
    records,     \* Aggregator: the message-level records handed to aggregate()
    call,        \* Aggregator: the arguments of the last aggregate() call, or None
    out,         \* Aggregator: the list aggregate() returned
    svc,         \* Scorer: the SentimentService under use, [low, high]
    compound,    \* Scorer: VADER's compound polarity of the text, in fiftieths
    annotated,   \* Scorer: the AnnotatedRecord annotate() returned, or None
    texts,       \* Scorer: a list of texts, each by its compound polarity
    batch_out,   \* Scorer: [list |-> the list annotate(texts) returned], or None
    now,         \* Window: the clock reading datetime.now(timezone.utc)
    days_back,   \* Window: the days_back argument
    include_today, \* Window: the include_today argument
    window,      \* Window: (start, end) returned by the ingest pipeline's _calc_window
    price_window, \* Window: (start, end) returned by the price pipeline's _calc_window
    tg_msgs,     \* Telegram: the channel's history, oldest first
    tg_start,    \* Telegram: start_date of fetch_messages_time_range
    tg_end,      \* Telegram: end_date of fetch_messages_time_range
    tg_pc,       \* Telegram: where the fetch call is
    tg_entity,   \* Telegram: whether _get_entity_safely returned an entity
    tg_pos,      \* Telegram: messages the current iter_messages has delivered
    tg_batch,    \* Telegram: batch of _fetch_time_range_batches
    tg_results,  \* Telegram: results of fetch_messages_time_range
    tg_retry,    \* Telegram: retry_count
    tg_batch_size, \* Telegram: batch_size
    tg_sleep,    \* Telegram: seconds of the asyncio.sleep in progress
    tg_entry,    \* Telegram: the adapter method the caller invoked
    tg_limit,    \* Telegram: limit of fetch_messages_for_channel, or None
    tg_is_group, \* Telegram: is_group of fetch_time_range / fetch_multiple
    tg_chan,     \* Telegram: position in `channels` of the channel under fetch
    tg_queue,    \* Telegram: histories of the channels still to fetch
    tg_all,      \* Telegram: all_messages of fetch_all
    tg_fetched,  \* Telegram: per finished channel, whether a wait beyond the ceiling
                 \* ended its fetch, and the list the fetch returned
    tg_err,      \* Telegram: the last exception the transport raised in this fetch
    tg_attempts, \* Telegram: passes of the while loop started in this fetch
    pl_fn,       \* Pipeline: the pipeline function under run
    pl_channels, \* Pipeline: settings.TELEGRAM_CHANNELS
    pl_groups,   \* Pipeline: settings.TELEGRAM_GROUPS
    pl_health,   \* Pipeline: per origin, whether Telegram resolves it
    pl_pc,       \* Pipeline: where the run is
    pl_tweets,   \* Pipeline: tweets
    pl_pending,  \* Pipeline: the targets whose coroutine is not created yet
    pl_coros,    \* Pipeline: coros, each by the target it fetches
    pl_log,      \* Pipeline: the fetches started and the pauses taken, in order
    pl_messages, \* Pipeline: messages
    pl_daily,    \* Pipeline: the list the run returns, or None
    pl_limit,    \* Pipeline: messages_limit, or None
    pl_warnings, \* Pipeline: the warnings _warn_incompleteness printed, in order
    ps_entry,    \* Price: the function the caller invoked
    ps_pc,       \* Price: where run_price_sentiment_pipeline is
    ps_records,  \* Price: the rows load_daily_sentiment returned
    ps_df,       \* Price: df, the sentiment rows normalised and sorted
    ps_out,      \* Price: the table run_price_sentiment_pipeline returned, or None
    px_start,    \* Price: start of fetch_daily_close
    px_end,      \* Price: end of fetch_daily_close
    px_pc,       \* Price: where fetch_daily_close is
    px_cursor,   \* Price: cursor, in ms
    px_rows,     \* Price: all_rows
    px_resp,     \* Price: the transport's answer to the last request
    px_sleep,    \* Price: ms of the last time.sleep
    px_parity,   \* Price: parity of the number of requests sent
    px_table,    \* Price: the table fetch_daily_close returned, or None
    cli_pc,      \* CLI: where main is
    cli_opts,    \* CLI: the options of the command line
    cli_echo,    \* CLI: the lines click.echo printed, in order
    cli_daily,   \* CLI: the list run_ingest_pipeline returns to main
    x_pc,        \* X: where fetch_recent_tweets is
    x_feed,      \* X: the tweets the search has for the query, in page order
    x_limit,     \* X: limit
    x_pos,       \* X: tweets paginator.flatten has yielded
    x_tweets,    \* X: tweets
    x_err        \* X: the exception the except clause caught, or None

aggVars == <<records, call, out>>
scVars == <<svc, compound, annotated, texts, batch_out>>
cwVars == <<now, days_back, include_today, window, price_window>>
tgVars == <<tg_msgs, tg_start, tg_end, tg_pc, tg_entity, tg_pos, tg_batch, tg_results, tg_retry,
           tg_batch_size, tg_sleep, tg_entry, tg_limit, tg_is_group, tg_chan, tg_queue, tg_all,
           tg_fetched, tg_err, tg_attempts>>
plVars == <<pl_fn, pl_channels, pl_groups, pl_health, pl_pc, pl_tweets, pl_pending, pl_coros,
           pl_log, pl_messages, pl_daily, pl_limit, pl_warnings>>
pxVars == <<ps_entry, ps_pc, ps_records, ps_df, ps_out, px_start, px_end, px_pc, px_cursor,
           px_rows, px_resp, px_sleep, px_parity, px_table>>
cliVars == <<cli_pc, cli_opts, cli_echo, cli_daily>>
xVars == <<x_pc, x_feed, x_limit, x_pos, x_tweets, x_err>>
vars == <<aggVars, scVars, cwVars, tgVars, plVars, pxVars, cliVars, xVars>>

\* Python's None, as a value comparable with the records that model datetimes and calls
None == [none |-> TRUE]

\* ------------------------------------------------------------------
\* Bounds and enumerated inputs
\* ------------------------------------------------------------------
MaxRecords == 3
MaxDaysBack == 3
MaxMsgs == 3

\* A datetime is [day, sod]: a UTC calendar day number and a second of that day.
DayStart == 0
DayEnd == 86399

DT(d, s) == [day |-> d, sod |-> s]

\* Timestamps carried by records (all timezone-aware UTC, as the adapters make them).
RecordTimes == {DT(0, DayStart), DT(0, DayEnd), DT(1, DayStart)}

\* norm scores the scorer can produce, one per label under the default thresholds
RecordScores == {20, 50, 80}

\* ------------------------------------------------------------------
\* Orderings pandas uses when it sorts: strings compare lexicographically
\* ------------------------------------------------------------------
SrcOrd(s) == CASE s = "telegram" -> 1 [] s = "twitter" -> 2 [] OTHER -> 3

LabelOrd(l) ==
    CASE l = "negative" -> 1 [] l = "neutral" -> 2 [] l = "no_data" -> 3
      [] l = "positive" -> 4 [] OTHER -> 5

\* ------------------------------------------------------------------
\* Rationals in lowest terms stand for the floats of avg_score
\* ------------------------------------------------------------------
RECURSIVE GCD(_, _)
GCD(a, b) == IF b = 0 THEN a ELSE GCD(b, a % b)

Frac(n, d) == LET g == GCD(n, d) IN [num |-> n \div g, den |-> d \div g]

RECURSIVE SumScores(_)
SumScores(s) == IF s = <<>> THEN 0 ELSE Head(s).norm_score + SumScores(Tail(s))

\* ------------------------------------------------------------------
\* Aggregator
\* ------------------------------------------------------------------
\* Aggregator._norm_day, and the .dt.normalize() of the date column
NormDay(ts) == [day |-> ts.day, sod |-> DayStart]

\* Series.mode(): the most frequent values, sorted ascending
Freq(labs, l) == Cardinality({i \in DOMAIN labs : labs[i] = l})

Mode(labs) ==
    {l \in {labs[i] : i \in DOMAIN labs} :
        \A i \in DOMAIN labs : Freq(labs, labs[i]) <= Freq(labs, l)}

\* a tie broken by the order of the records instead of the sorted modes
FirstInsertedMode(labs) ==
    LET m == Mode(labs)
    IN IF m = {} THEN "neutral"
       ELSE labs[CHOOSE i \in DOMAIN labs :
                 /\ labs[i] \in m
                 /\ \A j \in DOMAIN labs : labs[j] \in m => i <= j]

\* label=("label", lambda s: s.mode().iat[0] if not s.mode().empty else "neutral")
ModeLabel(labs) ==
    LET m == Mode(labs)
    IN IF m = {} THEN "neutral"
       ELSE CHOOSE l \in m : \A k \in m : LabelOrd(l) <= LabelOrd(k)

\* (source, date) key order of groupby(sort=True) and sort_values(["source","date"])
KeyLess(a, b) ==
    \/ SrcOrd(a.source) < SrcOrd(b.source)
    \/ /\ a.source = b.source
       /\ a.date.day < b.date.day

RECURSIVE InsertRow(_, _)
InsertRow(row, s) ==
    IF s = <<>> THEN <<row>>
    ELSE IF KeyLess(row, Head(s)) THEN <<row>> \o s
    ELSE <<Head(s)>> \o InsertRow(row, Tail(s))

\* the rows left in the order they come in
KeepOrder(s) == s

RECURSIVE SortRows(_)
SortRows(s) == IF s = <<>> THEN <<>> ELSE InsertRow(Head(s), SortRows(Tail(s)))

RECURSIVE SetToSeq(_)
SetToSeq(S) == IF S = {} THEN <<>> ELSE LET x == CHOOSE x \in S : TRUE
                                        IN <<x>> \o SetToSeq(S \ {x})

SelectSeq2(s, src, day) ==
    SelectSeq(s, LAMBDA r : r.source = src /\ NormDay(r.date) = day)

\* a group made of all the records of the source, whatever their day
GroupRowBySource(recs, src, day) ==
    LET g == SelectSeq(recs, LAMBDA r : r.source = src)
    IN [date |-> day, source |-> src,
        avg_score |-> Frac(SumScores(g), Len(g)),
        count |-> Len(g),
        label |-> ModeLabel([i \in DOMAIN g |-> g[i].label])]

\* one group of df.groupby(["source", "date"]).agg(...)
GroupRow(recs, src, day) ==
    LET g == SelectSeq2(recs, src, day)
    IN [date |-> day, source |-> src,
        avg_score |-> Frac(SumScores(g), Len(g)),
        count |-> Len(g),
        label |-> ModeLabel([i \in DOMAIN g |-> g[i].label])]

\* lines 40-58: the per-day aggregate, sorted by (source, date)
Agg(recs) ==
    LET keys == {<<recs[i].source, NormDay(recs[i].date)>> : i \in DOMAIN recs}
        rows == {GroupRow(recs, k[1], k[2]) : k \in keys}
    IN SortRows(SetToSeq(rows))

\* a range that leaves the end day out
RECURSIVE DateRangeExclusive(_, _)
DateRangeExclusive(s, e) ==
    IF s.day >= e.day THEN <<>>
    ELSE <<s>> \o DateRangeExclusive([day |-> s.day + 1, sod |-> s.sod], e)

\* pd.date_range(start=s_norm, end=e_norm, freq="D")
RECURSIVE DateRange(_, _)
DateRange(s, e) ==
    IF s.day > e.day THEN <<>>
    ELSE <<s>> \o DateRange([day |-> s.day + 1, sod |-> s.sod], e)

RECURSIVE SeqSources(_)
SeqSources(a) == IF a = <<>> THEN {} ELSE {Head(a).source} \cup SeqSources(Tail(a))

RECURSIVE SortedSources(_)
SortedSources(S) ==
    IF S = {} THEN <<>>
    ELSE LET m == CHOOSE x \in S : \A y \in S : SrcOrd(x) <= SrcOrd(y)
         IN <<m>> \o SortedSources(S \ {m})

\* the source list without the default for a table that names no source
AllSourcesNoDefault(sources, agg) ==
    IF sources # <<>> THEN sources ELSE SortedSources(SeqSources(agg))

\* all_sources = list(sources) if sources else (sorted(agg["source"].unique()) or ["telegram"])
AllSources(sources, agg) ==
    IF sources # <<>> THEN sources
    ELSE IF SortedSources(SeqSources(agg)) # <<>> THEN SortedSources(SeqSources(agg))
    ELSE <<"telegram">>

\* pd.MultiIndex.from_product([all_sources, full_dates])
RECURSIVE Product(_, _)
Product(srcs, dates) ==
    IF srcs = <<>> THEN <<>>
    ELSE [i \in DOMAIN dates |-> [source |-> Head(srcs), date |-> dates[i]]]
         \o Product(Tail(srcs), dates)

NeutralFill == 50

\* a missing cell filled with the neutral label
MergedRowNeutral(cell, agg, neutral_fill, no_data_label) ==
    LET hit == SelectSeq(agg, LAMBDA a : a.source = cell.source /\ a.date = cell.date)
    IN IF hit # <<>> THEN hit[1]
       ELSE [date |-> cell.date, source |-> cell.source,
             avg_score |-> Frac(neutral_fill, 1), count |-> 0,
             label |-> "neutral"]

\* full.merge(agg, how="left") and the three fillna
MergedRow(cell, agg, neutral_fill, no_data_label) ==
    LET hit == SelectSeq(agg, LAMBDA a : a.source = cell.source /\ a.date = cell.date)
    IN IF hit # <<>> THEN hit[1]
       ELSE [date |-> cell.date, source |-> cell.source,
             avg_score |-> Frac(neutral_fill, 1), count |-> 0,
             label |-> no_data_label]

\* Aggregator.aggregate
\* aggregate() filling the gaps whenever both window ends are given, whatever
\* fill_missing says
AggregateAlwaysFills(recs, start_date, end_date, fill_missing, neutral_fill, no_data_label, sources) ==
    LET agg == Agg(recs)
    IN IF start_date = None \/ end_date = None THEN agg
       ELSE LET full_dates == DateRange(NormDay(start_date), NormDay(end_date))
                full == Product(AllSources(sources, agg), full_dates)
                merged == [i \in DOMAIN full |->
                              MergedRow(full[i], agg, neutral_fill, no_data_label)]
            IN SortRows(merged)

Aggregate(recs, start_date, end_date, fill_missing, neutral_fill, no_data_label, sources) ==
    LET agg == Agg(recs)
    IN IF ~fill_missing \/ start_date = None \/ end_date = None THEN agg
       ELSE LET full_dates == DateRange(NormDay(start_date), NormDay(end_date))
                full == Product(AllSources(sources, agg), full_dates)
                merged == [i \in DOMAIN full |->
                              MergedRow(full[i], agg, neutral_fill, no_data_label)]
            IN SortRows(merged)

\* ------------------------------------------------------------------
\* Sentiment scorer
\* ------------------------------------------------------------------
Min2(a, b) == IF a < b THEN a ELSE b
Max2(a, b) == IF a > b THEN a ELSE b

\* the boundary-inclusive convention: <= low is negative, >= high is positive
LabelFromNormInclusive(norm, low, high) ==
    IF norm <= low THEN "negative"
    ELSE IF norm >= high THEN "positive"
    ELSE "neutral"

\* SentimentService._label_from_norm, self.low and self.high passed explicitly
LabelFromNorm(norm, low, high) ==
    IF norm < low THEN "negative"
    ELSE IF norm > high THEN "positive"
    ELSE "neutral"

\* the rescaling without its shift: comp * 50
NormScoreNoShift(c) == Max2(0, Min2(100, (c * 50) \div 50))

\* norm = max(0.0, min(100.0, (comp + 1.0) * 50.0)); comp = c/50, so that the
\* product is the integer c + 50
NormScore(c) == Max2(0, Min2(100, ((c + 50) * 50) \div 50))

\* one element of SentimentService.annotate's result
Annotate(c, low, high) ==
    [compound |-> c, norm_score |-> NormScore(c),
     label |-> LabelFromNorm(NormScore(c), low, high)]

\* a scoring in which every text is rated against the first text of its batch
AnnotateAllRelative(ts, low, high) ==
    [i \in DOMAIN ts |-> Annotate(ts[i] - ts[1], low, high)]

\* SentimentService.annotate: the loop over texts, each appended to out
RECURSIVE AnnotateAll(_, _, _)
AnnotateAll(ts, low, high) ==
    IF ts = <<>> THEN <<>>
    ELSE <<Annotate(Head(ts), low, high)>> \o AnnotateAll(Tail(ts), low, high)

\* ------------------------------------------------------------------
\* Window computation of the pipelines
\* ------------------------------------------------------------------
\* dt.replace(hour=.., minute=.., second=.., microsecond=0)
Replace(dt, s) == [day |-> dt.day, sod |-> s]

\* dt - timedelta(days=n)
MinusDays(dt, n) == [day |-> dt.day - n, sod |-> dt.sod]

\* a window that goes back days_back days instead of days_back - 1
CalcWindowOneMore(clock, db, incl) ==
    LET end0 == Replace(clock, DayEnd)
    IN IF incl
       THEN <<Replace(MinusDays(end0, db), DayStart), end0>>
       ELSE LET end1 == Replace(MinusDays(end0, 1), DayEnd)
            IN <<Replace(MinusDays(end1, db), DayStart), end1>>

\* ingest_pipeline._calc_window
CalcWindow(clock, db, incl) ==
    LET end0 == Replace(clock, DayEnd)
    IN IF incl
       THEN <<Replace(MinusDays(end0, db - 1), DayStart), end0>>
       ELSE LET end1 == Replace(MinusDays(end0, 1), DayEnd)
            IN <<Replace(MinusDays(end1, db - 1), DayStart), end1>>

\* price_sentiment_pipeline._calc_window
PriceCalcWindow(clock, db, incl) ==
    LET end0 == Replace(clock, DayEnd)
    IN IF incl
       THEN <<Replace(MinusDays(end0, db - 1), DayStart), end0>>
       ELSE LET end1 == Replace(MinusDays(end0, 1), DayEnd)
            IN <<Replace(MinusDays(end1, db - 1), DayStart), end1>>

\* ------------------------------------------------------------------
\* The aggregator driven as a state machine: a caller builds a record list,
\* then calls aggregate() once with some arguments
\* ------------------------------------------------------------------
\* windows as _calc_window shapes them: a day start to a day end
Windows ==
    {<<DT(0, DayStart), DT(0, DayEnd)>>, <<DT(0, DayStart), DT(1, DayEnd)>>,
     <<DT(1, DayStart), DT(1, DayEnd)>>}

\* windows with one end missing
OpenWindows == {<<None, DT(1, DayEnd)>>, <<DT(0, DayStart), None>>}

\* the `sources` argument: absent, or a list of distinct sources in some order
SourceLists ==
    {<<>>, <<"telegram">>, <<"twitter">>,
     <<"telegram", "twitter">>, <<"twitter", "telegram">>}

CallOf(w, fill, sl) ==
    [start_date |-> w[1], end_date |-> w[2], fill_missing |-> fill, sources |-> sl]

Calls ==
    {CallOf(w, TRUE, sl) : w \in Windows, sl \in SourceLists}
    \cup {CallOf(w, TRUE, <<"telegram">>) : w \in OpenWindows}
    \cup {CallOf(w, FALSE, <<>>) : w \in {<<None, None>>, <<DT(0, DayStart), DT(1, DayEnd)>>}}

\* SentimentService(low_thresh=50, high_thresh=50) of the pipelines
PipelineSvc == [low |-> 50, high |-> 50]

\* TelegramGroupAnalyzer's SentimentService(low_thresh=45, high_thresh=55)
AnalyzerSvc == [low |-> 45, high |-> 55]

\* a scored record, labelled as the pipelines' scorer labels its norm score
Rec(t, s, n) ==
    [date |-> t, source |-> s, norm_score |-> n,
     label |-> LabelFromNorm(n, PipelineSvc.low, PipelineSvc.high)]

\* the records a caller may pass: every telegram record over RecordTimes x RecordScores,
\* and two twitter records
RecordValues ==
    {Rec(t, "telegram", n) : t \in RecordTimes, n \in RecordScores}
    \cup {Rec(DT(0, DayEnd), "twitter", 50), Rec(DT(1, DayStart), "twitter", 80)}

AggIdle == records = <<>> /\ call = None /\ out = <<>>
ScIdle ==
    /\ svc = PipelineSvc
    /\ compound = 0
    /\ annotated = None
    /\ texts = <<>>
    /\ batch_out = None
CwIdle ==
    /\ now = DT(0, DayStart)
    /\ days_back = 1
    /\ include_today = TRUE
    /\ window = None
    /\ price_window = None

TgIdle ==
    /\ tg_msgs = <<>>
    /\ tg_start = 0
    /\ tg_end = 0
    /\ tg_pc = "idle"
    /\ tg_entity = FALSE
    /\ tg_pos = 0
    /\ tg_batch = <<>>
    /\ tg_results = <<>>
    /\ tg_retry = 0
    /\ tg_batch_size = 100
    /\ tg_sleep = 0
    /\ tg_entry = "idle"
    /\ tg_limit = None
    /\ tg_is_group = FALSE
    /\ tg_chan = 0
    /\ tg_queue = <<>>
    /\ tg_all = <<>>
    /\ tg_fetched = <<>>
    /\ tg_err = None
    /\ tg_attempts = 0

\* the origins a setting may name
OriginNames == {"alpha", "beta"}

PlIdle ==
    /\ pl_fn = "idle"
    /\ pl_channels = <<>>
    /\ pl_groups = <<>>
    /\ pl_health = [o \in OriginNames |-> TRUE]
    /\ pl_pc = "idle"
    /\ pl_tweets = <<>>
    /\ pl_pending = <<>>
    /\ pl_coros = <<>>
    /\ pl_log = <<>>
    /\ pl_messages = <<>>
    /\ pl_daily = None
    /\ pl_limit = None
    /\ pl_warnings = <<>>

PxIdle ==
    /\ ps_entry = "idle"
    /\ ps_pc = "idle"
    /\ ps_records = <<>>
    /\ ps_df = <<>>
    /\ ps_out = None
    /\ px_start = None
    /\ px_end = None
    /\ px_pc = "idle"
    /\ px_cursor = 0
    /\ px_rows = <<>>
    /\ px_resp = "none"
    /\ px_sleep = 0
    /\ px_parity = 0
    /\ px_table = None

CliIdle ==
    /\ cli_pc = "idle"
    /\ cli_opts = None
    /\ cli_echo = <<>>
    /\ cli_daily = <<>>

XIdle ==
    /\ x_pc = "idle"
    /\ x_feed = <<>>
    /\ x_limit = 0
    /\ x_pos = 0
    /\ x_tweets = <<>>
    /\ x_err = None

InitAgg == AggIdle /\ ScIdle /\ CwIdle /\ TgIdle /\ PlIdle /\ PxIdle /\ CliIdle /\ XIdle

AddRecord(r) ==
    /\ call = None
    /\ Len(records) < MaxRecords
    /\ records' = Append(records, r)
    /\ UNCHANGED <<call, out, scVars, cwVars, tgVars, plVars, pxVars, cliVars, xVars>>

CallAggregate(c) ==
    /\ call = None
    /\ call' = c
    /\ out' = Aggregate(records, c.start_date, c.end_date, c.fill_missing,
                        NeutralFill, "no_data", c.sources)
    /\ UNCHANGED <<records, scVars, cwVars, tgVars, plVars, pxVars, cliVars, xVars>>

NextAgg ==
    \/ \E r \in RecordValues : AddRecord(r)
    \/ \E c \in Calls : CallAggregate(c)

SpecAgg == InitAgg /\ [][NextAgg]_vars

\* ------------------------------------------------------------------
\* The scorer driven as a state machine: a service is constructed with its
\* thresholds, a text has some compound polarity, annotate() scores it
\* ------------------------------------------------------------------
Compounds == -50 .. 50

\* texts of one annotate() call
MaxTexts == 3

\* the compound polarities of the texts of a batch
TextCompounds == {-50, -1, 0, 1, 50}

TextLists == UNION {[1 .. n -> TextCompounds] : n \in 0 .. MaxTexts}

InitScore ==
    /\ svc \in {PipelineSvc, AnalyzerSvc}
    /\ \/ compound \in Compounds /\ texts = <<>>
       \/ compound = 0 /\ texts \in TextLists
    /\ annotated = None
    /\ batch_out = None
    /\ AggIdle /\ CwIdle /\ TgIdle /\ PlIdle /\ PxIdle /\ CliIdle /\ XIdle

CallAnnotate ==
    /\ annotated = None
    /\ annotated' = Annotate(compound, svc.low, svc.high)
    /\ UNCHANGED <<svc, compound, texts, batch_out, aggVars, cwVars, tgVars, plVars, pxVars,
                   cliVars, xVars>>

\* annotate(texts), lines 32-48
CallAnnotateBatch ==
    /\ batch_out = None
    /\ batch_out' = [list |-> AnnotateAll(texts, svc.low, svc.high)]
    /\ UNCHANGED <<svc, compound, texts, annotated, aggVars, cwVars, tgVars, plVars, pxVars,
                   cliVars, xVars>>

NextScore == CallAnnotate \/ CallAnnotateBatch

SpecScore == InitScore /\ [][NextScore]_vars

\* ------------------------------------------------------------------
\* The window computation driven as a state machine
\* ------------------------------------------------------------------
ClockDays == {0, 1, 2}
ClockSeconds == {DayStart, 1, 43200, 86398, DayEnd}

InitWindow ==
    /\ now \in {DT(d, s) : d \in ClockDays, s \in ClockSeconds}
    /\ days_back \in 1 .. MaxDaysBack
    /\ include_today \in BOOLEAN
    /\ window = None
    /\ price_window = None
    /\ AggIdle /\ ScIdle /\ TgIdle /\ PlIdle /\ PxIdle /\ CliIdle /\ XIdle

IngestCalcWindow ==
    /\ window = None
    /\ window' = CalcWindow(now, days_back, include_today)
    /\ UNCHANGED <<now, days_back, include_today, price_window, aggVars, scVars, tgVars, plVars, pxVars, cliVars, xVars>>

PriceCalcWindowCall ==
    /\ price_window = None
    /\ price_window' = PriceCalcWindow(now, days_back, include_today)
    /\ UNCHANGED <<now, days_back, include_today, window, aggVars, scVars, tgVars, plVars, pxVars, cliVars, xVars>>

NextWindow == IngestCalcWindow \/ PriceCalcWindowCall

SpecWindow == InitWindow /\ [][NextWindow]_vars

\* ------------------------------------------------------------------
\* Telegram adapter: fetch_messages_time_range and fetch_messages_for_channel
\* over one channel, called directly or per channel by fetch_time_range and
\* fetch_multiple. Times are seconds; the transport (Telethon's iter_messages)
\* may raise at any request.
\* ------------------------------------------------------------------
MaxRetries == 3
BaseDelay == 5
FloodCeiling == 300
FloodCeilingChannel == 600
FloodMargin == 5
MinBatchSize == 10
DefaultBatchSize == 100
ChannelDelay == 3
GroupDelay == 8

\* channels handed to fetch_time_range / fetch_multiple
MaxOrigins == 2

\* message dates in the channel, and the requested range [1, 3]
MsgTimes == 0 .. 4
RangeStart == 1
RangeEnd == 3

\* batch_size arguments
BatchSizes == {2, DefaultBatchSize}

\* limit arguments of fetch_messages_for_channel: None, or an int
LimitArgs == {None, [int |-> 2]}

\* `seconds` of the FloodWaitError the transport may raise: one within the
\* ceiling of the fetch and one beyond it
FloodSecondsRange == {120, 400}
FloodSecondsChannel == {400, 700}

\* the exceptions of client.get_entity after which _get_entity_safely returns None
ResolveErrors ==
    {"PeerIdInvalidError", "ChannelPrivateError", "ChatAdminRequiredError",
     "UserBannedInChannelError", "TimeoutError", "Exception"}

\* the adapter's entry points
Entries ==
    {"fetch_messages_time_range", "fetch_messages_for_channel", "fetch_time_range",
     "fetch_multiple"}

\* channel histories: ids ascend with the dates; a message may carry no text
Histories ==
    UNION {{h \in [1 .. n -> [date : MsgTimes, text : BOOLEAN]] :
               \A i \in 1 .. n - 1 : h[i].date <= h[i + 1].date} : n \in 0 .. MaxMsgs}

\* the histories fetch_messages_for_channel is called on: it has no end date, so
\* one date later than `since` stands for all
SinceHistories == {h \in Histories : \A i \in DOMAIN h : h[i].date <= RangeStart + 1}

\* the histories of the channels of a multi-channel call: text messages of one
\* date in the range
ChannelHistories ==
    {h \in Histories : \A i \in DOMAIN h : h[i].text /\ h[i].date = RangeStart}

RECURSIVE SumLen(_)
SumLen(cs) == IF cs = <<>> THEN 0 ELSE Len(Head(cs)) + SumLen(Tail(cs))

\* the `channels` arguments: one history per channel
ChannelLists ==
    UNION {{cs \in [1 .. n -> ChannelHistories] : SumLen(cs) <= MaxMsgs} : n \in 1 .. MaxOrigins}

RECURSIVE Reverse(_)
Reverse(s) == IF s = <<>> THEN <<>> ELSE Append(Reverse(Tail(s)), Head(s))

\* the stored messages with their ids
WithIds(h) == [i \in DOMAIN h |-> [id |-> i, date |-> h[i].date, text |-> h[i].text]]

\* client.iter_messages(entity, offset_date=end_date, reverse=False): newest first,
\* only the messages strictly earlier than offset_date
IterMessages(msgs, offset_date) ==
    Reverse(SelectSeq(WithIds(msgs), LAMBDA m : m.date < offset_date))

\* client.iter_messages(entity, limit=limit): newest first, at most `limit` messages
IterLimit(msgs, limit) ==
    IF limit = None THEN Reverse(WithIds(msgs))
    ELSE SubSeq(Reverse(WithIds(msgs)), 1, Min2(limit.int, Len(msgs)))

\* the entry points that fetch a time range; the others fetch with a limit
TimeRange == tg_entry \in {"fetch_messages_time_range", "fetch_time_range"}

\* the entry points that loop over a list of channels
MultiChannel == tg_entry \in {"fetch_time_range", "fetch_multiple"}

\* the messages the iter_messages call of the running fetch delivers
Iter == IF TimeRange THEN IterMessages(tg_msgs, tg_end) ELSE IterLimit(tg_msgs, tg_limit)

\* TelegramMessage(channel=entity.title, id=message.id, date=msg_date, text=...)
TelegramMessage(m) == [channel |-> tg_chan, id |-> m.id, date |-> m.date]

InitTg ==
    /\ tg_entry \in Entries
    /\ tg_start = RangeStart
    /\ tg_end = RangeEnd
    /\ tg_limit \in (IF TimeRange THEN {None}
                     ELSE IF MultiChannel THEN LimitArgs \ {None} ELSE LimitArgs)
    /\ IF MultiChannel
       THEN /\ \E cs \in ChannelLists : tg_msgs = Head(cs) /\ tg_queue = Tail(cs)
            /\ tg_batch_size = DefaultBatchSize
            /\ tg_is_group \in BOOLEAN
       ELSE /\ tg_msgs \in (IF TimeRange THEN Histories ELSE SinceHistories)
            /\ tg_queue = <<>>
            /\ tg_batch_size \in BatchSizes
            /\ tg_is_group = FALSE
    /\ tg_chan = 1
    /\ tg_all = <<>>
    /\ tg_fetched = <<>>
    /\ tg_pc = "call"
    /\ tg_entity = FALSE
    /\ tg_pos = 0
    /\ tg_batch = <<>>
    /\ tg_results = <<>>
    /\ tg_retry = 0
    /\ tg_sleep = 0
    /\ tg_err = None
    /\ tg_attempts = 0
    /\ AggIdle /\ ScIdle /\ CwIdle /\ PlIdle /\ PxIdle /\ CliIdle /\ XIdle

\* the arguments of the call and the multi-channel loop's state
tgArgs == <<tg_entry, tg_start, tg_end, tg_limit, tg_is_group>>
tgLoop == <<tg_msgs, tg_chan, tg_queue, tg_all, tg_fetched>>
TgOther == <<aggVars, scVars, cwVars, plVars, pxVars, cliVars, xVars>>

\* lines 269-270 and 155-156: authenticate_if_needed
TgAuthenticate(ok) ==
    /\ tg_pc = "call"
    /\ tg_pc' = IF ok THEN "resolve" ELSE "returned"
    /\ UNCHANGED <<tg_entity, tg_pos, tg_batch, tg_results, tg_retry, tg_batch_size, tg_sleep,
                   tg_err, tg_attempts, tgArgs, tgLoop, TgOther>>

\* a fetch that goes on although _get_entity_safely returned None
TgGetEntityProceeds(outcome) ==
    /\ tg_pc = "resolve"
    /\ tg_pc' = "iter"
    /\ tg_entity' = (outcome = "ok")
    /\ tg_err' = IF outcome = "ok" THEN None ELSE [kind |-> outcome, seconds |-> 0]
    /\ tg_attempts' = 1
    /\ UNCHANGED <<tg_pos, tg_batch, tg_results, tg_retry, tg_batch_size, tg_sleep, tgArgs,
                   tgLoop, TgOther>>

\* lines 86-119, 272-281 and 158-165: _get_entity_safely ends with the entity
\* ("ok") or, after the named exception of client.get_entity (TimeoutError: on
\* each of its three attempts), with None; with an entity results = [],
\* retry_count = 0 and the while loop starts its first pass
TgGetEntity(outcome) ==
    /\ tg_pc = "resolve"
    /\ tg_pc' = IF outcome = "ok" THEN "iter" ELSE "returned"
    /\ tg_entity' = (outcome = "ok")
    /\ tg_err' = IF outcome = "ok" THEN None ELSE [kind |-> outcome, seconds |-> 0]
    /\ tg_attempts' = IF outcome = "ok" THEN 1 ELSE 0
    /\ UNCHANGED <<tg_pos, tg_batch, tg_results, tg_retry, tg_batch_size, tg_sleep, tgArgs,
                   tgLoop, TgOther>>

\* lines 341-342 and 289-290, 245-247 and 176: the generator yields what is
\* left, the call returns
Finish(batch) == IF batch # <<>> THEN tg_results \o batch ELSE tg_results

\* lines 322-339 and 217-238: one message of the async for
TgNextMessage ==
    /\ tg_pc = "iter"
    /\ tg_pos < Len(Iter)
    /\ LET m == Iter[tg_pos + 1]
           batch1 == IF m.text THEN Append(tg_batch, TelegramMessage(m)) ELSE tg_batch
       IN IF m.date < tg_start
          THEN /\ tg_results' = Finish(tg_batch)
               /\ tg_batch' = <<>>
               /\ tg_pc' = "returned"
               /\ UNCHANGED tg_pos
          ELSE /\ tg_pos' = tg_pos + 1
               /\ IF (TimeRange => m.text) /\ Len(batch1) >= tg_batch_size
                  THEN tg_results' = tg_results \o batch1 /\ tg_batch' = <<>>
                  ELSE tg_results' = tg_results /\ tg_batch' = batch1
               /\ UNCHANGED tg_pc
    /\ UNCHANGED <<tg_entity, tg_retry, tg_batch_size, tg_sleep, tg_err, tg_attempts, tgArgs,
                   tgLoop, TgOther>>

\* the async for ends: no message is left
TgExhausted ==
    /\ tg_pc = "iter"
    /\ tg_pos = Len(Iter)
    /\ tg_results' = Finish(tg_batch)
    /\ tg_batch' = <<>>
    /\ tg_pc' = "returned"
    /\ UNCHANGED <<tg_entity, tg_pos, tg_retry, tg_batch_size, tg_sleep, tg_err, tg_attempts,
                   tgArgs, tgLoop, TgOther>>

\* a handler that starts over with an empty list
KeptOnErrorDiscards == <<>>

\* lines 249-253: _fetch_messages_in_batches yields its unyielded batch before it
\* re-raises; _fetch_time_range_batches has no handler and its batch is gone
KeptOnError == IF TimeRange THEN tg_results ELSE Finish(tg_batch)

\* lines 294 and 182: the longest wait the call sleeps through
Ceiling == IF TimeRange THEN FloodCeiling ELSE FloodCeilingChannel

\* a handler that sleeps through a wait of any length
TgFloodWaitNoCeiling(seconds) ==
    /\ tg_pc = "iter"
    /\ tg_err' = [kind |-> "flood", seconds |-> seconds]
    /\ tg_retry' = tg_retry + 1
    /\ tg_results' = KeptOnError
    /\ tg_batch' = <<>>
    /\ tg_pos' = 0
    /\ IF tg_retry + 1 < MaxRetries
       THEN /\ tg_pc' = "sleep"
            /\ tg_sleep' = seconds + FloodMargin
            /\ tg_batch_size' = Max2(tg_batch_size \div 2, MinBatchSize)
       ELSE /\ tg_pc' = "returned"
            /\ UNCHANGED <<tg_sleep, tg_batch_size>>
    /\ UNCHANGED <<tg_entity, tg_attempts, tgArgs, tgLoop, TgOther>>

\* a handler that sleeps the reported seconds only
TgFloodWaitNoMargin(seconds) ==
    /\ tg_pc = "iter"
    /\ tg_err' = [kind |-> "flood", seconds |-> seconds]
    /\ tg_retry' = tg_retry + 1
    /\ tg_results' = KeptOnError
    /\ tg_batch' = <<>>
    /\ tg_pos' = 0
    /\ IF seconds <= Ceiling /\ tg_retry + 1 < MaxRetries
       THEN /\ tg_pc' = "sleep"
            /\ tg_sleep' = seconds
            /\ tg_batch_size' = Max2(tg_batch_size \div 2, MinBatchSize)
       ELSE /\ tg_pc' = "returned"
            /\ UNCHANGED <<tg_sleep, tg_batch_size>>
    /\ UNCHANGED <<tg_entity, tg_attempts, tgArgs, tgLoop, TgOther>>

\* lines 292-300 and 178-192: the transport raises FloodWaitError(seconds)
TgFloodWait(seconds) ==
    /\ tg_pc = "iter"
    /\ tg_err' = [kind |-> "flood", seconds |-> seconds]
    /\ tg_retry' = tg_retry + 1
    /\ tg_results' = KeptOnError
    /\ tg_batch' = <<>>
    /\ tg_pos' = 0
    /\ IF seconds <= Ceiling /\ tg_retry + 1 < MaxRetries
       THEN /\ tg_pc' = "sleep"
            /\ tg_sleep' = seconds + FloodMargin
            /\ tg_batch_size' = Max2(tg_batch_size \div 2, MinBatchSize)
       ELSE /\ tg_pc' = "returned"
            /\ UNCHANGED <<tg_sleep, tg_batch_size>>
    /\ UNCHANGED <<tg_entity, tg_attempts, tgArgs, tgLoop, TgOther>>

\* a handler that does not count the failed pass
TgErrorKeepsCount ==
    /\ tg_pc = "iter"
    /\ tg_err' = [kind |-> "error", seconds |-> 0]
    /\ tg_retry' = tg_retry
    /\ tg_results' = KeptOnError
    /\ tg_batch' = <<>>
    /\ tg_pos' = 0
    /\ IF tg_retry + 1 < MaxRetries
       THEN tg_pc' = "sleep" /\ tg_sleep' = BaseDelay * (tg_retry + 1)
       ELSE tg_pc' = "returned" /\ UNCHANGED tg_sleep
    /\ UNCHANGED <<tg_entity, tg_batch_size, tg_attempts, tgArgs, tgLoop, TgOther>>

\* lines 302-308 and 194-201: the transport raises another exception
TgError ==
    /\ tg_pc = "iter"
    /\ tg_err' = [kind |-> "error", seconds |-> 0]
    /\ tg_retry' = tg_retry + 1
    /\ tg_results' = KeptOnError
    /\ tg_batch' = <<>>
    /\ tg_pos' = 0
    /\ IF tg_retry + 1 < MaxRetries
       THEN tg_pc' = "sleep" /\ tg_sleep' = BaseDelay * (tg_retry + 1)
       ELSE tg_pc' = "returned" /\ UNCHANGED tg_sleep
    /\ UNCHANGED <<tg_entity, tg_batch_size, tg_attempts, tgArgs, tgLoop, TgOther>>

\* the sleep ends and the except clause with it (its `e` is unbound); the while
\* loop starts the batch generator again
TgWake ==
    /\ tg_pc = "sleep"
    /\ tg_pc' = "iter"
    /\ tg_sleep' = 0
    /\ tg_attempts' = tg_attempts + 1
    /\ tg_err' = None
    /\ UNCHANGED <<tg_entity, tg_pos, tg_batch, tg_results, tg_retry, tg_batch_size, tgArgs,
                   tgLoop, TgOther>>

\* lines 361 and 407: delay = 8 if is_group else 3
Delay == IF tg_is_group THEN GroupDelay ELSE ChannelDelay

\* lines 366-377 and 412-424: the channel's fetch returned to fetch_all, which
\* extends all_messages and goes on to the next channel or returns
TgCollect ==
    /\ tg_pc = "returned"
    /\ MultiChannel
    /\ tg_all' = tg_all \o tg_results
    /\ tg_fetched' = Append(tg_fetched, [abandoned |-> tg_err # None /\ tg_err.kind = "flood"
                                                          /\ tg_err.seconds > Ceiling,
                                         results |-> tg_results])
    /\ IF tg_queue = <<>>
       THEN tg_pc' = "done" /\ UNCHANGED tg_sleep
       ELSE tg_pc' = "pause" /\ tg_sleep' = Delay
    /\ UNCHANGED <<tg_msgs, tg_chan, tg_queue, tg_entity, tg_pos, tg_batch, tg_results, tg_retry,
                   tg_batch_size, tg_err, tg_attempts, tgArgs, TgOther>>

\* lines 355-366 and 401-412: the pause before the next channel is over, its
\* fetch is called with the default batch_size
TgNextChannel ==
    /\ tg_pc = "pause"
    /\ tg_pc' = "call"
    /\ tg_msgs' = Head(tg_queue)
    /\ tg_queue' = Tail(tg_queue)
    /\ tg_chan' = tg_chan + 1
    /\ tg_entity' = FALSE
    /\ tg_pos' = 0
    /\ tg_batch' = <<>>
    /\ tg_results' = <<>>
    /\ tg_retry' = 0
    /\ tg_batch_size' = DefaultBatchSize
    /\ tg_sleep' = 0
    /\ tg_err' = None
    /\ tg_attempts' = 0
    /\ UNCHANGED <<tg_all, tg_fetched, tgArgs, TgOther>>

NextTg ==
    \/ \E ok \in BOOLEAN : TgAuthenticate(ok)
    \/ \E outcome \in {"ok"} \cup ResolveErrors : TgGetEntity(outcome)
    \/ TgNextMessage
    \/ TgExhausted
    \/ \E sec \in (IF TimeRange THEN FloodSecondsRange ELSE FloodSecondsChannel) : TgFloodWait(sec)
    \/ TgError
    \/ TgWake
    \/ TgCollect
    \/ TgNextChannel

SpecTg == InitTg /\ [][NextTg]_vars

\* ------------------------------------------------------------------
\* The pipelines' Telegram fan-out: run_ingest_pipeline and run_simple_analysis
\* build one fetch_messages_for_channel coroutine per target, gather them,
\* score and aggregate.
\* ------------------------------------------------------------------
\* entries of TELEGRAM_CHANNELS and of TELEGRAM_GROUPS
MaxTargets == 2

TargetLists == UNION {[1 .. n -> OriginNames] : n \in 0 .. MaxTargets}

\* the parameters of TelegramAdapter.fetch_messages_for_channel after self
FetchParams == <<"channel", "limit", "since", "batch_size">>

\* the call of run_ingest_pipeline, lines 91-97: keywords only
IngestCall ==
    [positional |-> 0, keywords |-> {"channel", "limit", "since", "until", "page_size"}]

\* the call of run_simple_analysis, lines 178 and 181: five positional arguments
SimpleCall == [positional |-> 5, keywords |-> {}]

\* Python binds the arguments when the coroutine function is called: no more
\* positional arguments than parameters, every keyword a parameter that no
\* positional argument has filled, and `channel`, which has no default, given
Binds(c) ==
    /\ c.positional <= Len(FetchParams)
    /\ c.keywords \subseteq {FetchParams[i] : i \in c.positional + 1 .. Len(FetchParams)}
    /\ c.positional >= 1 \/ "channel" \in c.keywords

\* the keys of the dict filled at lines 84-87, in insertion order
RECURSIVE Dedup(_, _)
Dedup(s, acc) ==
    IF s = <<>> THEN acc
    ELSE IF \E i \in DOMAIN acc : acc[i] = Head(s) THEN Dedup(Tail(s), acc)
    ELSE Dedup(Tail(s), Append(acc, Head(s)))

\* the targets in the order their coroutines are created: lines 84-89, and
\* lines 176-181 (groups first, every entry)
Targets ==
    IF pl_fn = "run_ingest_pipeline" THEN Dedup(pl_channels \o pl_groups, <<>>)
    ELSE pl_groups \o pl_channels

\* the window of the run: _calc_window(days_back=1) at noon of day 0
PlWindow == CalcWindow(DT(0, 43200), 1, TRUE)

\* the tweets fetch_recent_tweets may return: none, or one of compound 0.5
TweetLists == {<<>>, <<[created_at |-> DT(0, 1), compound |-> 25]>>}

\* what a gathered fetch of origin o returns: its one message of compound -0.5
\* if the origin resolves, else the empty list
Chunk(o) ==
    IF pl_health[o] THEN <<[channel |-> o, date |-> DT(0, 43200), compound |-> -25]>>
    ELSE <<>>

RECURSIVE Chunks(_)
Chunks(coros) == IF coros = <<>> THEN <<>> ELSE Chunk(Head(coros)) \o Chunks(Tail(coros))

\* the one TelegramAdapter a run constructs (tg_adapter, lines 80 and 173): every
\* coroutine of the run is a bound method of this instance
TgAdapter == 1

\* the values of messages_limit: fetch all, or one message per channel
PlLimits == {None, [int |-> 1]}

DtLess(a, b) == a.day < b.day \/ (a.day = b.day /\ a.sod < b.sod)

\* min(fetched_dates)
RECURSIVE MinDate(_)
MinDate(dates) ==
    IF Len(dates) = 1 THEN dates[1]
    ELSE LET m == MinDate(Tail(dates))
         IN IF DtLess(m, Head(dates)) THEN m ELSE Head(dates)

\* _warn_incompleteness: the warnings it prints for one channel
WarnIncompleteness(start_date, channel, fetched_dates, limit_hit) ==
    IF fetched_dates = <<>> THEN <<[channel |-> channel, kind |-> "no_messages"]>>
    ELSE (IF DtLess(start_date, MinDate(fetched_dates))
          THEN <<[channel |-> channel, kind |-> "incomplete"]>> ELSE <<>>)
         \o (IF limit_hit THEN <<[channel |-> channel, kind |-> "clipped"]>> ELSE <<>>)

\* lines 107-110: per fetched channel, limit_hit and the call of _warn_incompleteness
RECURSIVE Warnings(_)
Warnings(coros) ==
    IF coros = <<>> THEN <<>>
    ELSE LET batch == Chunk(Head(coros))
             limit_hit == pl_limit # None /\ Len(batch) = pl_limit.int
         IN WarnIncompleteness(PlWindow[1], Head(coros),
                               [i \in DOMAIN batch |-> batch[i].date], limit_hit)
            \o Warnings(Tail(coros))

InitPipe ==
    /\ pl_fn \in {"run_ingest_pipeline", "run_simple_analysis"}
    /\ pl_channels \in TargetLists
    /\ pl_groups \in TargetLists
    /\ pl_health \in [OriginNames -> BOOLEAN]
    /\ pl_pc = "start"
    /\ pl_tweets = <<>>
    /\ pl_pending = <<>>
    /\ pl_coros = <<>>
    /\ pl_log = <<>>
    /\ pl_messages = <<>>
    /\ pl_daily = None
    /\ pl_limit \in IF pl_fn = "run_ingest_pipeline" THEN PlLimits ELSE {None}
    /\ pl_warnings = <<>>
    /\ AggIdle /\ ScIdle /\ CwIdle /\ TgIdle /\ PxIdle /\ CliIdle /\ XIdle

PlOther == <<aggVars, scVars, cwVars, tgVars, pxVars, cliVars, xVars>>

\* lines 67-87 and 170-175: the window, the tweets (run_ingest_pipeline only),
\* the adapter and the targets
PlBegin(tweets) ==
    /\ pl_pc = "start"
    /\ pl_fn = "run_simple_analysis" => tweets = <<>>
    /\ pl_tweets' = tweets
    /\ pl_pending' = Targets
    /\ pl_pc' = "fanout"
    /\ UNCHANGED <<pl_fn, pl_channels, pl_groups, pl_health, pl_coros, pl_log, pl_messages,
                   pl_daily, pl_limit, pl_warnings, PlOther>>

\* lines 89-98, 178 and 181: the call that is to create the next target's
\* coroutine; arguments that do not bind raise TypeError out of the pipeline
PlCreateCoro ==
    /\ pl_pc = "fanout"
    /\ pl_pending # <<>>
    /\ IF Binds(IF pl_fn = "run_ingest_pipeline" THEN IngestCall ELSE SimpleCall)
       THEN /\ pl_coros' = Append(pl_coros, Head(pl_pending))
            /\ pl_pending' = Tail(pl_pending)
            /\ UNCHANGED pl_pc
       ELSE /\ pl_pc' = "raised"
            /\ UNCHANGED <<pl_coros, pl_pending>>
    /\ UNCHANGED <<pl_fn, pl_channels, pl_groups, pl_health, pl_tweets, pl_log, pl_messages,
                   pl_daily, pl_limit, pl_warnings, PlOther>>

\* lines 100-105 and 183-188 with _run_in_current_loop: asyncio.gather starts a
\* task per coroutine, none waiting for another, and returns when all are done;
\* the chunks are concatenated in the order of the coroutines
PlGather ==
    /\ pl_pc = "fanout"
    /\ pl_pending = <<>>
    /\ IF pl_coros # <<>>
       THEN /\ pl_log' = [i \in DOMAIN pl_coros |->
                             [kind |-> "fetch", origin |-> pl_coros[i], adapter |-> TgAdapter]]
            /\ pl_messages' = Chunks(pl_coros)
            /\ pl_warnings' = IF pl_fn = "run_ingest_pipeline" THEN Warnings(pl_coros)
                              ELSE <<>>
       ELSE UNCHANGED <<pl_log, pl_messages, pl_warnings>>
    /\ pl_pc' = "score"
    /\ UNCHANGED <<pl_fn, pl_channels, pl_groups, pl_health, pl_tweets, pl_pending, pl_coros,
                   pl_daily, pl_limit, PlOther>>

\* the scored records of lines 113-125 and 205-210
TweetRecords == [i \in DOMAIN pl_tweets |->
                    Rec(pl_tweets[i].created_at, "twitter", NormScore(pl_tweets[i].compound))]
MsgRecords == [i \in DOMAIN pl_messages |->
                  Rec(pl_messages[i].date, "telegram", NormScore(pl_messages[i].compound))]

\* lines 131-137
PlSources ==
    (IF MsgRecords # <<>> THEN <<"telegram">> ELSE <<>>)
        \o (IF TweetRecords # <<>> THEN <<"twitter">> ELSE <<>>)

\* lines 112-157 and 190-229: scoring, then the gap-filled aggregate
PlFinish ==
    /\ pl_pc = "score"
    /\ pl_daily' =
           IF pl_fn = "run_ingest_pipeline"
           THEN IF TweetRecords \o MsgRecords = <<>> THEN <<>>
                ELSE Aggregate(TweetRecords \o MsgRecords, PlWindow[1], PlWindow[2], TRUE,
                               NeutralFill, "no_data", PlSources)
           ELSE Aggregate(MsgRecords, PlWindow[1], PlWindow[2], TRUE, NeutralFill, "no_data",
                          <<"telegram">>)
    /\ pl_pc' = "returned"
    /\ UNCHANGED <<pl_fn, pl_channels, pl_groups, pl_health, pl_tweets, pl_pending, pl_coros,
                   pl_log, pl_messages, pl_limit, pl_warnings, PlOther>>

NextPipe ==
    \/ \E tweets \in TweetLists : PlBegin(tweets)
    \/ PlCreateCoro
    \/ PlGather
    \/ PlFinish

SpecPipe == InitPipe /\ [][NextPipe]_vars

\* ------------------------------------------------------------------
\* Binance price adapter (fetch_daily_close) and run_price_sentiment_pipeline.
\* The transport's times are milliseconds since the epoch; a bar is
\* [open_time, close]. The transport answers a request with HTTP 429, with an
\* error status, or with a page of bars, which may be empty.
\* ------------------------------------------------------------------
\* milliseconds of a calendar day: to_datetime(unit="ms") and normalize()
DayMs == 86400000

\* time.sleep(1.2), in ms
BackoffMs == 1200



\* bars of one page: min(limit, 1000) of the request
MaxPxBatch == 2

\* rows collected by one fetch
MaxPxRows == 3

\* rows of the daily sentiment file
MaxSentRows == 2

\* BinancePriceAdapter._to_ms of a UTC datetime
ToMs(dt) == (dt.day * 86400 + dt.sod) * 1000

\* the days the transport has bars of, and the daily bar of day d
PxBarDays == 0 .. 3
Bar(d) == [open_time |-> d * DayMs, close |-> 100 + d]

\* the non-empty pages the transport may answer with
PxBatches == UNION {[1 .. n -> {Bar(d) : d \in PxBarDays}] : n \in 1 .. MaxPxBatch}

\* start and end of a direct call of fetch_daily_close
PxStarts == {DT(1, DayStart), DT(1, 43200)}
PxEnds == {DT(1, DayEnd), DT(2, DayEnd)}

\* the window of the overlay run: _calc_window(days_back=2) at noon of day 2
PsWindow == PriceCalcWindow(DT(2, 43200), 2, TRUE)

\* a row of the daily sentiment file
SentRow(src, d) ==
    [date |-> DT(d, DayStart), source |-> src, avg_score |-> Frac(NeutralFill, 1),
     count |-> 1, label |-> "neutral"]

SentRows == {SentRow("telegram", 1), SentRow("telegram", 2), SentRow("telegram", 3),
             SentRow("twitter", 1)}

\* the lists load_daily_sentiment may return: one row per (source, date), any order
SentimentTables ==
    {t \in UNION {[1 .. n -> SentRows] : n \in 0 .. MaxSentRows} :
        \A i, j \in DOMAIN t : i # j => t[i] # t[j]}

\* lines 78-82: open_time as a normalised calendar date
PxDate(open_time) == DT(open_time \div DayMs, DayStart)

\* sort_values("date") of line 83
RECURSIVE InsertBar(_, _)
InsertBar(row, s) ==
    IF s = <<>> THEN <<row>>
    ELSE IF row.date.day < Head(s).date.day THEN <<row>> \o s
    ELSE <<Head(s)>> \o InsertBar(row, Tail(s))

RECURSIVE SortByDate(_)
SortByDate(s) ==
    IF s = <<>> THEN <<>>
    ELSE InsertBar(s[Len(s)], SortByDate(SubSeq(s, 1, Len(s) - 1)))

\* lines 68-88: the table made of all_rows
PxFrame(rows, start, end) ==
    IF rows = <<>> THEN <<>>
    ELSE LET df == [i \in DOMAIN rows |->
                       [date |-> PxDate(rows[i].open_time), close |-> rows[i].close]]
         IN SelectSeq(SortByDate(df),
                      LAMBDA r : r.date.day >= NormDay(start).day /\ r.date.day <= NormDay(end).day)

\* lines 64-65: df.merge(px[["date", "close"]] renamed to btc_close, on="date", how="left")
RECURSIVE Merge(_, _)
Merge(df, px) ==
    IF df = <<>> THEN <<>>
    ELSE LET l == Head(df)
             hits == SelectSeq(px, LAMBDA b : b.date = l.date)
             joined(c) == [date |-> l.date, source |-> l.source, avg_score |-> l.avg_score,
                           count |-> l.count, label |-> l.label, btc_close |-> c]
         IN (IF hits = <<>> THEN <<joined(None)>>
             ELSE [i \in DOMAIN hits |-> joined([int |-> hits[i].close])])
            \o Merge(Tail(df), px)

\* the last non-null btc_close at or before row i, or None: the forward fill
\* pct_change applies before it divides
RECURSIVE Padded(_, _)
Padded(t, i) ==
    IF i = 0 THEN None
    ELSE IF t[i].btc_close # None THEN t[i].btc_close
    ELSE Padded(t, i - 1)

\* line 67: btc_ret_pct = btc_close.pct_change() * 100, as a fraction
WithReturns(t) ==
    [i \in DOMAIN t |->
        LET cur == Padded(t, i)
            prev == Padded(t, i - 1)
        IN [date |-> t[i].date, source |-> t[i].source, avg_score |-> t[i].avg_score,
            count |-> t[i].count, label |-> t[i].label, btc_close |-> t[i].btc_close,
            btc_ret_pct |-> IF cur = None \/ prev = None THEN None
                            ELSE Frac((cur.int - prev.int) * 100, prev.int)]]

InitPrice ==
    /\ ps_entry \in {"fetch_daily_close", "run_price_sentiment_pipeline"}
    /\ IF ps_entry = "fetch_daily_close"
       THEN /\ px_start \in PxStarts
            /\ px_end \in PxEnds
            /\ ps_records = <<>>
            /\ ps_pc = "idle"
            /\ px_pc = "call"
       ELSE /\ px_start = None
            /\ px_end = None
            /\ ps_records \in SentimentTables
            /\ ps_pc = "start"
            /\ px_pc = "idle"
    /\ ps_df = <<>>
    /\ ps_out = None
    /\ px_cursor = 0
    /\ px_rows = <<>>
    /\ px_resp = "none"
    /\ px_sleep = 0
    /\ px_parity = 0
    /\ px_table = None
    /\ AggIdle /\ ScIdle /\ CwIdle /\ TgIdle /\ PlIdle /\ CliIdle /\ XIdle

PxOther == <<aggVars, scVars, cwVars, tgVars, plVars, cliVars, xVars>>
psVars == <<ps_entry, ps_pc, ps_records, ps_df, ps_out>>

\* run_price_sentiment_pipeline lines 36-57: the rows loaded; none ends the run
\* with an empty table, else they are normalised and sorted and the fetch is called
PsLoad ==
    /\ ps_pc = "start"
    /\ IF ps_records = <<>>
       THEN /\ ps_out' = <<>>
            /\ ps_pc' = "returned"
            /\ UNCHANGED <<ps_df, px_start, px_end, px_pc>>
       ELSE /\ ps_df' = SortRows([i \in DOMAIN ps_records |->
                                     [ps_records[i] EXCEPT !.date = NormDay(@)]])
            /\ px_start' = PsWindow[1]
            /\ px_end' = PsWindow[2]
            /\ px_pc' = "call"
            /\ ps_pc' = "fetch"
            /\ UNCHANGED ps_out
    /\ UNCHANGED <<ps_entry, ps_records, px_cursor, px_rows, px_resp, px_sleep, px_parity,
                   px_table, PxOther>>

\* fetch_daily_close lines 34-38
PxBegin ==
    /\ px_pc = "call"
    /\ px_cursor' = ToMs(px_start)
    /\ px_pc' = "request"
    /\ UNCHANGED <<psVars, px_start, px_end, px_rows, px_resp, px_sleep, px_parity, px_table,
                   PxOther>>

\* a rate-limit answer after which the cursor moves on by a day
PxRateLimitedSkips ==
    /\ px_pc = "request"
    /\ px_resp' = "429"
    /\ px_sleep' = BackoffMs
    /\ px_parity' = 1 - px_parity
    /\ px_cursor' = px_cursor + DayMs
    /\ UNCHANGED <<psVars, px_start, px_end, px_pc, px_rows, px_table, PxOther>>

\* lines 48-51: status 429, sleep and continue
PxRateLimited ==
    /\ px_pc = "request"
    /\ px_resp' = "429"
    /\ px_sleep' = BackoffMs
    /\ px_parity' = 1 - px_parity
    /\ UNCHANGED <<psVars, px_start, px_end, px_pc, px_cursor, px_rows, px_table, PxOther>>

\* lines 48 and 52: requests.get or raise_for_status raises, out of the fetch
\* and out of the pipeline that called it
PxHttpError ==
    /\ px_pc = "request"
    /\ px_resp' = "error"
    /\ px_parity' = 1 - px_parity
    /\ px_pc' = "raised"
    /\ ps_pc' = IF ps_entry = "run_price_sentiment_pipeline" THEN "raised" ELSE ps_pc
    /\ UNCHANGED <<ps_entry, ps_records, ps_df, ps_out, px_start, px_end, px_cursor, px_rows,
                   px_sleep, px_table, PxOther>>

\* an empty page that makes the fetch raise
PxEmptyRaises ==
    /\ px_pc = "request"
    /\ px_resp' = "empty"
    /\ px_parity' = 1 - px_parity
    /\ px_pc' = "raised"
    /\ UNCHANGED <<psVars, px_start, px_end, px_cursor, px_rows, px_sleep, px_table, PxOther>>

\* lines 53-55 and 68-88: an empty page ends the loop and the table is returned
PxEmpty ==
    /\ px_pc = "request"
    /\ px_resp' = "empty"
    /\ px_parity' = 1 - px_parity
    /\ px_pc' = "returned"
    /\ px_table' = PxFrame(px_rows, px_start, px_end)
    /\ UNCHANGED <<psVars, px_start, px_end, px_cursor, px_rows, px_sleep, PxOther>>

\* lines 53-66 and 68-88: a page of bars is appended; the loop ends if the next
\* cursor is past end_ms or equals the cursor, else the cursor moves to it
PxPage(batch) ==
    /\ px_pc = "request"
    /\ Len(px_rows) + Len(batch) <= MaxPxRows
    /\ px_resp' = "page"
    /\ px_parity' = 1 - px_parity
    /\ px_rows' = px_rows \o batch
    /\ LET next_cursor == batch[Len(batch)].open_time + 1
       IN IF next_cursor > ToMs(px_end) \/ next_cursor = px_cursor
          THEN /\ px_pc' = "returned"
               /\ px_table' = PxFrame(px_rows \o batch, px_start, px_end)
               /\ UNCHANGED px_cursor
          ELSE /\ px_cursor' = next_cursor
               /\ UNCHANGED <<px_pc, px_table>>
    /\ UNCHANGED <<psVars, px_start, px_end, px_sleep, PxOther>>

\* run_price_sentiment_pipeline lines 58-81: the sentiment rows as they are if
\* the price table is empty, else the left join and the returns
PsMerge ==
    /\ ps_pc = "fetch"
    /\ px_pc = "returned"
    /\ ps_out' = IF px_table = <<>> THEN ps_df ELSE WithReturns(Merge(ps_df, px_table))
    /\ ps_pc' = "returned"
    /\ UNCHANGED <<ps_entry, ps_records, ps_df, px_start, px_end, px_pc, px_cursor, px_rows,
                   px_resp, px_sleep, px_parity, px_table, PxOther>>

NextPrice ==
    \/ PsLoad
    \/ PxBegin
    \/ PxRateLimited
    \/ PxHttpError
    \/ PxEmpty
    \/ \E batch \in PxBatches : PxPage(batch)
    \/ PsMerge

SpecPrice == InitPrice /\ [][NextPrice]_vars

\* the adapter's loop and the pipeline are sequential code that keeps running:
\* a step that can be taken is taken; which answer the transport gives is free
SpecPriceFair == SpecPrice /\ WF_vars(NextPrice)

\* ------------------------------------------------------------------
\* The command line: cli.main echoes, calls run_ingest_pipeline with its
\* options and reports the number of records
\* ------------------------------------------------------------------
\* the parameters of run_ingest_pipeline, every one with a default
PipelineParams ==
    <<"days_back", "tweets_per_day", "messages_limit", "output_path", "include_today",
      "page_size">>

\* the call of cli.main, lines 43-47: keywords only
CliCall ==
    [positional |-> 0, keywords |-> {"days_back", "tweets_per_day", "messages_per_channel"}]

\* Python binds the arguments when run_ingest_pipeline is called: no more
\* positional arguments than parameters, every keyword a parameter that no
\* positional argument has filled
BindsPipeline(c) ==
    /\ c.positional <= Len(PipelineParams)
    /\ c.keywords \subseteq {PipelineParams[i] : i \in c.positional + 1 .. Len(PipelineParams)}

\* the options click hands to main
CliOptions ==
    [days_back : 1 .. MaxDaysBack, tweets_per_day : {1, 50}, messages_per_channel : {1, 50},
     env : {None, [name |-> "development"], [name |-> "production"]}]

\* the lists run_ingest_pipeline may return to main
CliResults == {<<>>, <<SentRow("telegram", 0)>>}

InitCli ==
    /\ cli_pc = "start"
    /\ cli_opts \in CliOptions
    /\ cli_echo = <<>>
    /\ cli_daily \in CliResults
    /\ AggIdle /\ ScIdle /\ CwIdle /\ TgIdle /\ PlIdle /\ PxIdle /\ XIdle

CliOther == <<aggVars, scVars, cwVars, tgVars, plVars, pxVars, xVars>>

\* main lines 36-42: the environment, if given, and the starting line
CliBegin ==
    /\ cli_pc = "start"
    /\ cli_echo' = (IF cli_opts.env # None
                    THEN <<[kind |-> "environment", name |-> cli_opts.env.name]>> ELSE <<>>)
                   \o <<[kind |-> "starting"]>>
    /\ cli_pc' = "call"
    /\ UNCHANGED <<cli_opts, cli_daily, CliOther>>

\* main lines 43-51: the call of run_ingest_pipeline, which raises TypeError out
\* of main if its arguments do not bind, and the two closing lines
CliRun ==
    /\ cli_pc = "call"
    /\ IF BindsPipeline(CliCall)
       THEN /\ cli_echo' = cli_echo \o <<[kind |-> "completed"],
                                         [kind |-> "processed", count |-> Len(cli_daily)]>>
            /\ cli_pc' = "done"
       ELSE /\ cli_pc' = "raised"
            /\ UNCHANGED cli_echo
    /\ UNCHANGED <<cli_opts, cli_daily, CliOther>>

NextCli == CliBegin \/ CliRun

SpecCli == InitCli /\ [][NextCli]_vars

\* ------------------------------------------------------------------
\* XApiAdapter.fetch_recent_tweets over a search that holds x_feed for the query
\* ------------------------------------------------------------------
MaxTweets == 3

\* the tweets of a response: public_metrics present or missing, created_at
\* present or missing (the field is requested, the model validates it)
TweetValues ==
    {[id |-> 1, created_at |-> DT(0, 1), public_metrics |-> [like_count |-> 7]],
     [id |-> 2, created_at |-> DT(0, 2), public_metrics |-> None],
     [id |-> 3, created_at |-> None, public_metrics |-> None]}

Feeds == UNION {[1 .. n -> TweetValues] : n \in 0 .. MaxTweets}

XLimits == 0 .. MaxTweets

\* TweetData(...): created_at is a required datetime
ValidTweet(tweet) == tweet.created_at # None

\* pm = tweet.public_metrics or {}; like_count=pm.get("like_count", 0), and the
\* other three counts alike
ToTweetData(tweet) ==
    [id |-> tweet.id, created_at |-> tweet.created_at,
     like_count |-> IF tweet.public_metrics = None THEN 0
                    ELSE tweet.public_metrics.like_count]

InitX ==
    /\ x_pc = "idle"
    /\ x_feed \in Feeds
    /\ x_limit \in XLimits
    /\ x_pos = 0
    /\ x_tweets = <<>>
    /\ x_err = None
    /\ AggIdle /\ ScIdle /\ CwIdle /\ TgIdle /\ PlIdle /\ PxIdle /\ CliIdle

XOther == <<aggVars, scVars, cwVars, tgVars, plVars, pxVars, cliVars>>

\* lines 64-78: the paginator is built (no request yet) and tweets = []
XBegin ==
    /\ x_pc = "idle"
    /\ x_pc' = "iter"
    /\ UNCHANGED <<x_feed, x_limit, x_pos, x_tweets, x_err, XOther>>

\* lines 80-92: flatten yields the next tweet, which is converted and appended;
\* a tweet that TweetData rejects raises ValidationError into the except clause
XNextTweet ==
    /\ x_pc = "iter"
    /\ x_pos < x_limit
    /\ x_pos < Len(x_feed)
    /\ LET tweet == x_feed[x_pos + 1]
       IN IF ValidTweet(tweet)
          THEN /\ x_tweets' = Append(x_tweets, ToTweetData(tweet))
               /\ x_pos' = x_pos + 1
               /\ UNCHANGED <<x_pc, x_err>>
          ELSE /\ x_err' = [kind |-> "ValidationError"]
               /\ x_pc' = "returned"
               /\ UNCHANGED <<x_tweets, x_pos>>
    /\ UNCHANGED <<x_feed, x_limit, XOther>>

\* the except clause left out: the exception of the transport leaves the function
XFailRaises ==
    /\ x_pc = "iter"
    /\ x_pos < x_limit
    /\ x_err' = [kind |-> "TweepyException"]
    /\ x_pc' = "raised"
    /\ UNCHANGED <<x_feed, x_limit, x_pos, x_tweets, XOther>>

\* lines 93-95: a request of the paginator raises; the exception is printed
\* and the tweets appended so far are returned. flatten sends no request once
\* it has yielded `limit` tweets
XFail ==
    /\ x_pc = "iter"
    /\ x_pos < x_limit
    /\ x_err' = [kind |-> "TweepyException"]
    /\ x_pc' = "returned"
    /\ UNCHANGED <<x_feed, x_limit, x_pos, x_tweets, XOther>>

\* line 95 after the loop: flatten is exhausted, or has yielded `limit` tweets
XEnd ==
    /\ x_pc = "iter"
    /\ x_pos >= x_limit \/ x_pos = Len(x_feed)
    /\ x_pc' = "returned"
    /\ UNCHANGED <<x_feed, x_limit, x_pos, x_tweets, x_err, XOther>>

NextX ==
    \/ XBegin
    \/ XNextTweet
    \/ XFail
    \/ XEnd

SpecX == InitX /\ [][NextX]_vars

\* ==================================================================
\* Properties
\* ==================================================================
Called == call # None

\* a gap-filling call: fill_missing=True with both window ends given
FillCall ==
    /\ call # None
    /\ call.fill_missing
    /\ call.start_date # None
    /\ call.end_date # None

SeqSet(s) == {s[i] : i \in DOMAIN s}

\* the input records that fall in the cell (src, day)
CellRecords(src, day) ==
    {j \in DOMAIN records : records[j].source = src /\ records[j].date.day = day}

RowsAt(src, day) ==
    {i \in DOMAIN out : out[i].source = src /\ out[i].date = DT(day, DayStart)}

\* C1: with fill_missing, start_date <= end_date and a non-empty source set S,
\* aggregate returns |S| * (days from start to end inclusive) rows and every
\* (source, day) of S x days is in exactly one row, whatever the records are.
C1_GapFillCompleteness ==
    (FillCall /\ call.sources # <<>> /\ call.start_date.day <= call.end_date.day) =>
        LET S == SeqSet(call.sources)
            ndays == call.end_date.day - call.start_date.day + 1
        IN /\ Len(out) = Cardinality(S) * ndays
           /\ \A src \in S : \A d \in call.start_date.day .. call.end_date.day :
                  Cardinality(RowsAt(src, d)) = 1

\* one source, a one-day window, records of another source and of another day
C1_Witness ==
    /\ FillCall
    /\ call.sources = <<"telegram">>
    /\ call.start_date.day = 0 /\ call.end_date.day = 0
    /\ \E j \in DOMAIN records : records[j].source = "twitter"
    /\ \E j \in DOMAIN records : records[j].date.day = 1
    /\ Len(out) = 1

\* C2: in a gap-filled output a row of a (source, day) without input record has
\* count = 0 and label = no_data_label, and a row with count > 0 never has the
\* label "no_data".
C2_NoDataDistinguishable ==
    FillCall =>
        \A i \in DOMAIN out :
            /\ CellRecords(out[i].source, out[i].date.day) = {} =>
                   (out[i].count = 0 /\ out[i].label = "no_data")
            /\ out[i].count > 0 => out[i].label # "no_data"

C2_Witness ==
    /\ FillCall
    /\ \E i \in DOMAIN out : out[i].count = 0 /\ out[i].label = "no_data"
    /\ \E i \in DOMAIN out : out[i].count > 0 /\ out[i].label = "neutral"

\* the source set of the grid: the requested one, else the observed one, else telegram
GridSources ==
    IF call.sources # <<>> THEN SeqSet(call.sources)
    ELSE IF records # <<>> THEN {records[j].source : j \in DOMAIN records}
    ELSE {"telegram"}

SumOver(J) == LET RECURSIVE Sum(_)
                  Sum(K) == IF K = {} THEN 0
                            ELSE LET k == CHOOSE k \in K : TRUE
                                 IN records[k].norm_score + Sum(K \ {k})
              IN Sum(J)

\* C3: for every cell of the gap-filled grid, a cell with input records carries
\* their arithmetic mean and their number, a cell without carries count = 0,
\* avg_score = neutral_fill and label = no_data_label.
C3_CellValues ==
    FillCall =>
        \A src \in GridSources : \A d \in call.start_date.day .. call.end_date.day :
            /\ RowsAt(src, d) # {}
            /\ \A i \in RowsAt(src, d) :
                  LET J == CellRecords(src, d)
                  IN IF J # {}
                     THEN /\ out[i].count = Cardinality(J)
                          /\ out[i].avg_score.num * Cardinality(J)
                                 = SumOver(J) * out[i].avg_score.den
                     ELSE /\ out[i].count = 0
                          /\ out[i].avg_score = [num |-> NeutralFill, den |-> 1]
                          /\ out[i].label = "no_data"

\* three records scored 80 on day 0, none on day 1
C3_Witness ==
    /\ FillCall
    /\ records = <<Rec(DT(0, DayStart), "telegram", 80), Rec(DT(0, DayEnd), "telegram", 80),
                   Rec(DT(0, DayEnd), "telegram", 80)>>
    /\ out = <<[date |-> DT(0, DayStart), source |-> "telegram",
                avg_score |-> [num |-> 80, den |-> 1], count |-> 3, label |-> "positive"],
               [date |-> DT(1, DayStart), source |-> "telegram",
                avg_score |-> [num |-> 50, den |-> 1], count |-> 0, label |-> "no_data"]>>

\* s with its elements i and i + 1 exchanged
SwapNext(s, i) ==
    [k \in DOMAIN s |-> IF k = i THEN s[i + 1] ELSE IF k = i + 1 THEN s[i] ELSE s[k]]

\* C4: aggregate applied to any permutation of the record list, with the same
\* window, sources and flags, returns the identical sequence of rows (the
\* label of a tie included). Stated for the exchange of two neighbours: every
\* record list is an input of some reachable state, and the exchanges of
\* neighbours generate every permutation.
C4_OrderIndependent ==
    Called =>
        \A i \in 1 .. Len(records) - 1 :
            Aggregate(SwapNext(records, i), call.start_date, call.end_date,
                      call.fill_missing, NeutralFill, "no_data", call.sources) = out

\* a positive record before a negative one in one cell: two labels tie
C4_Witness ==
    /\ Called
    /\ Len(records) = 2
    /\ records[1].label = "positive" /\ records[2].label = "negative"
    /\ records[1].source = records[2].source
    /\ records[1].date.day = records[2].date.day
    /\ \E i \in DOMAIN out : out[i].count = 2 /\ out[i].label = "negative"

\* C5: the rows are sorted by source and, within a source, by strictly
\* ascending date, with and without gap filling, whatever the order of sources.
C5_SortedOutput ==
    Called =>
        \A i \in 1 .. Len(out) - 1 :
            \/ SrcOrd(out[i].source) < SrcOrd(out[i + 1].source)
            \/ /\ out[i].source = out[i + 1].source
               /\ out[i].date.day < out[i + 1].date.day

C5_Witness ==
    /\ FillCall
    /\ call.sources = <<"twitter", "telegram">>
    /\ Len(out) = 4
    /\ out[1].source = "telegram" /\ out[4].source = "twitter"
    /\ \E j \in DOMAIN records : records[j].source = "twitter"

\* C6: the label is negative if norm < low, positive if norm > high, neutral
\* otherwise; with low = high = 50 a record is neutral exactly when norm = 50.
C6_LabelRule ==
    annotated # None =>
        /\ annotated.norm_score < svc.low => annotated.label = "negative"
        /\ annotated.norm_score > svc.high => annotated.label = "positive"
        /\ (annotated.norm_score >= svc.low /\ annotated.norm_score <= svc.high)
              => annotated.label = "neutral"
        /\ svc = PipelineSvc => (annotated.label = "neutral" <=> annotated.norm_score = 50)

C6_Witness ==
    /\ annotated # None
    /\ svc = PipelineSvc
    /\ annotated.norm_score = 50
    /\ annotated.label = "neutral"

\* C7 as stated: with low = 45 and high = 55, norm 44 is negative, 45 negative,
\* 50 neutral, 55 positive and 56 positive (both boundaries inclusive).
C7_InclusiveBoundaries ==
    (annotated # None /\ svc = AnalyzerSvc) =>
        /\ annotated.norm_score = 44 => annotated.label = "negative"
        /\ annotated.norm_score = 45 => annotated.label = "negative"
        /\ annotated.norm_score = 50 => annotated.label = "neutral"
        /\ annotated.norm_score = 55 => annotated.label = "positive"
        /\ annotated.norm_score = 56 => annotated.label = "positive"

\* C7 amended: with low = 45 and high = 55, norm 44 is negative, 45 neutral,
\* 50 neutral, 55 neutral and 56 positive (both boundaries belong to neutral).
C7_StrictBoundaries ==
    (annotated # None /\ svc = AnalyzerSvc) =>
        /\ annotated.norm_score = 44 => annotated.label = "negative"
        /\ annotated.norm_score = 45 => annotated.label = "neutral"
        /\ annotated.norm_score = 50 => annotated.label = "neutral"
        /\ annotated.norm_score = 55 => annotated.label = "neutral"
        /\ annotated.norm_score = 56 => annotated.label = "positive"

C7_Witness ==
    /\ annotated # None
    /\ svc = AnalyzerSvc
    /\ annotated.norm_score = 45
    /\ annotated.label = "neutral"

\* C8: for every compound c in [-1, 1] (here c/50 with c in -50..50),
\* norm_score = (c + 1) * 50 clamped to [0, 100]: -1 gives 0, 0 gives 50,
\* 1 gives 100, and norm_score is always within [0, 100].
C8_AffineMapping ==
    annotated # None =>
        /\ annotated.compound = compound
        /\ 50 * annotated.norm_score = (compound + 50) * 50
        /\ annotated.norm_score >= 0 /\ annotated.norm_score <= 100
        /\ compound = -50 => annotated.norm_score = 0
        /\ compound = 0 => annotated.norm_score = 50
        /\ compound = 50 => annotated.norm_score = 100

C8_Witness ==
    /\ annotated # None
    /\ compound = -50
    /\ annotated.norm_score = 0

\* what C9 says of one (start, end) pair
ExactWindow(w) ==
    LET start == w[1]
        end == w[2]
    IN /\ start.sod = 0
       /\ end.sod = 23 * 3600 + 59 * 60 + 59
       /\ end.day = IF include_today THEN now.day ELSE now.day - 1
       /\ start.day = end.day - (days_back - 1)
       /\ Cardinality(start.day .. end.day) = days_back

\* C9: for days_back >= 1 both _calc_window return a window of exactly
\* days_back calendar days: start at 00:00:00 of the first day, end at 23:59:59
\* of today (include_today) or of yesterday, start day = end day - (days_back - 1).
C9_WindowExact ==
    /\ window # None => ExactWindow(window)
    /\ price_window # None => ExactWindow(price_window)

C9_Witness ==
    /\ window # None
    /\ price_window # None
    /\ ~include_today
    /\ days_back = 3
    /\ now = DT(2, DayStart)
    /\ window = <<DT(-1, DayStart), DT(1, DayEnd)>>

\* the ids of the text messages of the channel dated within [tg_start, tg_end]
InRangeTextIds ==
    {i \in DOMAIN tg_msgs :
        tg_msgs[i].text /\ tg_start <= tg_msgs[i].date /\ tg_msgs[i].date <= tg_end}

\* C10: over a transport whose offset is exclusive, a time-range fetch that
\* resolves its channel and meets no transport error returns every text message
\* with start <= timestamp <= end, those stamped exactly start or exactly end
\* included, and no message outside that range.
C10_InclusiveRange ==
    (TimeRange /\ tg_pc = "returned" /\ tg_entity /\ tg_retry = 0) =>
        {tg_results[i].id : i \in DOMAIN tg_results} = InRangeTextIds

\* the (channel, message id) keys of the list one channel's fetch returned
Keys(msgs) == {<<msgs[i].channel, msgs[i].id>> : i \in DOMAIN msgs}

\* C11: the list a fetch returns for one channel never holds two messages with
\* the same (channel, message id), whatever the transport did during the fetch.
C11_NoDuplicates ==
    tg_pc = "returned" => Cardinality(Keys(tg_results)) = Len(tg_results)

\* C12: the list a fetch returns for one channel is ordered oldest-first: its
\* timestamps never decrease along the list.
C12_OldestFirst ==
    tg_pc = "returned" =>
        \A i \in 1 .. Len(tg_results) - 1 : tg_results[i].date <= tg_results[i + 1].date

\* C13: with a limit, fetch_messages_for_channel never returns more than `limit`
\* messages, whatever the transport did during the fetch.
C13_LimitRespected ==
    (~TimeRange /\ tg_limit # None /\ tg_pc = "returned") => Len(tg_results) <= tg_limit.int

\* the fetch of the current channel has been called and has not returned
InCall == tg_pc \in {"call", "resolve", "iter", "sleep"}

\* a bound on the steps the running fetch can still take: the passes of the while
\* loop left, each at most one request per stored message, one more and a sleep
PassLen == Len(tg_msgs) + 2
Rank ==
    CASE tg_pc = "call" -> MaxRetries * 2 * PassLen + PassLen + 2
      [] tg_pc = "resolve" -> MaxRetries * 2 * PassLen + PassLen + 1
      [] tg_pc = "iter" -> (MaxRetries - tg_retry) * 2 * PassLen + PassLen - tg_pos
      [] tg_pc = "sleep" -> (MaxRetries - tg_retry) * 2 * PassLen + PassLen + 1
      [] OTHER -> 0

\* C14: a fetch of one channel starts at most max_retries passes of its while
\* loop, never ends by raising, and every step it takes brings it closer to its
\* return: a natural number bounding the steps left strictly decreases.
C14_BoundedAttempts ==
    [][/\ tg_attempts' <= MaxRetries
       /\ tg_pc' # "raised"
       /\ InCall => (Rank' < Rank /\ Rank' >= 0)]_vars

\* three passes, each ended by an exception, the first of them a rate limit
C14_Witness ==
    /\ tg_pc = "returned"
    /\ tg_attempts = MaxRetries
    /\ tg_retry = MaxRetries
    /\ tg_err # None /\ tg_err.kind = "error"
    /\ tg_batch_size = MinBatchSize

\* e is a rate-limit error whose wait is longer than the ceiling of the fetch
OverCeiling(e) == e # None /\ e.kind = "flood" /\ e.seconds > Ceiling

IsPrefix(s, t) == Len(s) <= Len(t) /\ SubSeq(t, 1, Len(s)) = s

\* C15: a rate-limit wait longer than the ceiling ends the fetch of that channel
\* at once: the call returns, without raising, a list that extends what it had
\* collected by at most the batch in hand; no pass or sleep of that fetch follows;
\* and a multi-channel call goes on to every channel left.
C15_CeilingAbandons ==
    [][/\ (tg_pc = "iter" /\ tg_retry' = tg_retry + 1 /\ OverCeiling(tg_err')) =>
              /\ tg_pc' = "returned"
              /\ IsPrefix(tg_results, tg_results')
              /\ Len(tg_results') <= Len(tg_results) + Len(tg_batch)
       /\ OverCeiling(tg_err') => tg_pc' \in {"returned", "pause", "done"}
       /\ (tg_pc = "returned" /\ MultiChannel /\ tg_queue # <<>>) =>
              (tg_pc' = "pause" /\ tg_queue' = tg_queue)
       /\ tg_pc = "pause" =>
              (tg_pc' = "call" /\ tg_chan' = tg_chan + 1 /\ tg_msgs' = Head(tg_queue))
       /\ tg_pc' = "done" => tg_queue' = <<>>]_vars

\* fetch_multiple gave up its first channel on a wait beyond the ceiling, kept
\* the messages collected so far and is fetching the second channel
C15_Witness ==
    /\ tg_entry = "fetch_multiple"
    /\ tg_chan = 2
    /\ tg_pc = "iter"
    /\ tg_fetched[1].abandoned
    /\ tg_fetched[1].results # <<>>
    /\ tg_all = tg_fetched[1].results

\* C16: after a rate-limit error of N seconds, N within the ceiling and passes
\* left, the fetch sleeps N + 5 seconds, and the only step out of a sleep is its
\* end, where the next pass starts: no message is requested in between.
C16_SleepBeforeRetry ==
    [][/\ (/\ tg_pc = "iter"
           /\ tg_retry' = tg_retry + 1
           /\ tg_err'.kind = "flood"
           /\ tg_err'.seconds <= Ceiling
           /\ tg_retry' < MaxRetries) =>
              (tg_pc' = "sleep" /\ tg_sleep' = tg_err'.seconds + FloodMargin)
       /\ tg_pc = "sleep" =>
              /\ tg_pc' = "iter"
              /\ tg_sleep > 0
              /\ tg_pos = 0 /\ tg_pos' = 0
              /\ tg_results' = tg_results
              /\ tg_batch' = tg_batch]_vars

\* fetch_messages_for_channel sleeps 405 s after a wait of 400 s
C16_Witness ==
    /\ tg_entry = "fetch_messages_for_channel"
    /\ tg_pc = "sleep"
    /\ tg_err # None /\ tg_err.kind = "flood" /\ tg_err.seconds > FloodCeiling
    /\ tg_sleep = tg_err.seconds + FloodMargin

\* C17: when the channel cannot be resolved the fetch returns an empty list, does
\* not raise and has started no pass of its while loop: no message was requested.
C17_UnresolvedIsEmpty ==
    (tg_pc \in {"returned", "raised"} /\ ~tg_entity) =>
        /\ tg_pc = "returned"
        /\ tg_results = <<>>
        /\ tg_attempts = 0
        /\ tg_pos = 0

\* a private channel whose history holds a text message in the range
C17_Witness ==
    /\ tg_pc = "returned"
    /\ tg_err # None /\ tg_err.kind = "ChannelPrivateError"
    /\ \E i \in DOMAIN tg_msgs : tg_msgs[i].text /\ tg_msgs[i].date = RangeStart
    /\ tg_results = <<>>

\* the distinct origins the settings name
Origins == SeqSet(pl_channels) \cup SeqSet(pl_groups)

\* the pipeline run has ended: it returned or it raised
PlEnded == pl_pc \in {"returned", "raised"}

\* the positions of the log at which a fetch of origin o started
FetchesOf(o) == {i \in DOMAIN pl_log : pl_log[i].kind = "fetch" /\ pl_log[i].origin = o}

\* C18: when a multi-origin run has ended, the combined record set holds the
\* messages of every configured origin that Telegram serves, whichever other
\* origins failed.
C18_HealthyOriginsKept ==
    PlEnded =>
        \A o \in Origins :
            pl_health[o] => \E i \in DOMAIN pl_messages : pl_messages[i].channel = o

\* C19: a pipeline run over at least one origin starts one fetch per distinct
\* origin, and ends with the combined records scored and aggregated.
C19_FanOutThenScore ==
    (PlEnded /\ Origins # {}) =>
        /\ pl_pc = "returned"
        /\ \A o \in Origins : Cardinality(FetchesOf(o)) = 1
        /\ pl_daily # None

Warned(o, kind) == \E i \in DOMAIN pl_warnings : pl_warnings[i] = [channel |-> o, kind |-> kind]

PlDays == SeqSet(DateRange(NormDay(PlWindow[1]), NormDay(PlWindow[2])))

\* C23: a gap-filled series returned by run_ingest_pipeline has exactly one row
\* per day of the window for twitter and for telegram, also for the one of them
\* that returned no record in this run.
C23_BothSourcesCovered ==
    (pl_fn = "run_ingest_pipeline" /\ pl_pc = "returned" /\ pl_daily # <<>>) =>
        \A src \in {"twitter", "telegram"} : \A d \in PlDays :
            Cardinality({i \in DOMAIN pl_daily :
                            pl_daily[i].source = src /\ pl_daily[i].date = d}) = 1

\* C24: a pipeline run in which twitter and every configured origin return
\* nothing ends by returning, and what it returns is the empty list or a series
\* of no_data rows only.
C24_ZeroRecordsReturns ==
    (PlEnded /\ pl_tweets = <<>> /\ \A o \in Origins : Chunk(o) = <<>>) =>
        /\ pl_pc = "returned"
        /\ \A i \in DOMAIN pl_daily : pl_daily[i].label = "no_data" /\ pl_daily[i].count = 0

\* the step is the handling of the transport's answer to a page request
Answered(kind) == px_pc = "request" /\ px_parity' # px_parity /\ px_resp' = kind

\* C25: whenever fetch_daily_close has handled a page of bars, either the loop
\* has stopped or the cursor of the next request is strictly greater than the
\* cursor of the request just answered.
C25_CursorAdvances ==
    [][Answered("page") => (px_pc' = "returned" \/ px_cursor' > px_cursor)]_vars

\* C26: the handling of an HTTP 429 sleeps the fixed backoff and leaves the
\* cursor and the rows collected so far as they were, with the fetch back at
\* the request.
C26_RateLimitFrame ==
    [][Answered("429") =>
          /\ px_sleep' = BackoffMs
          /\ px_cursor' = px_cursor
          /\ px_rows' = px_rows
          /\ px_pc' = "request"]_vars

\* a 429 came after a page was collected, and the fetch still asks from the
\* cursor that page left
C26_Witness ==
    /\ px_resp = "429"
    /\ px_pc = "request"
    /\ px_rows # <<>>
    /\ px_cursor = px_rows[Len(px_rows)].open_time + 1
    /\ px_sleep = BackoffMs

\* C27: every fetch_daily_close that has begun to request pages ends, by
\* returning or by raising, whatever the transport answers.
C27_FetchEnds == (px_pc = "request") ~> (px_pc \in {"returned", "raised"})

\* C28: the table fetch_daily_close returned has dates in strictly ascending
\* order (sorted, no date twice), all of them from start's day to end's day.
C28_TableWellFormed ==
    (px_pc = "returned") =>
        /\ \A i, j \in DOMAIN px_table : i < j => px_table[i].date.day < px_table[j].date.day
        /\ \A i \in DOMAIN px_table :
               /\ px_table[i].date.day >= px_start.day
               /\ px_table[i].date.day <= px_end.day

\* the bars collected whose day is in the requested range
InRangeRows ==
    {i \in DOMAIN px_rows : /\ px_rows[i].open_time \div DayMs >= px_start.day
                            /\ px_rows[i].open_time \div DayMs <= px_end.day}

\* C29: a fetch raises only on a transport error; an empty page ends it by
\* returning, and a fetch that returns with no bar of the requested range
\* collected returns the empty table.
C29_EmptyWhenNothing ==
    /\ px_pc = "raised" => px_resp = "error"
    /\ px_resp = "empty" => px_pc = "returned"
    /\ (px_pc = "returned" /\ InRangeRows = {}) => px_table = <<>>

\* the transport had nothing at all: after a 429, the first page was empty
C29_Witness ==
    /\ px_resp = "empty"
    /\ px_sleep = BackoffMs
    /\ px_rows = <<>>
    /\ px_pc = "returned"
    /\ px_table = <<>>

\* the close of the bar of date d in the price table, or None if it has none
CloseOn(d) ==
    IF \E k \in DOMAIN px_table : px_table[k].date = d
    THEN [int |-> px_table[CHOOSE k \in DOMAIN px_table : px_table[k].date = d].close]
    ELSE None

\* C30: the table the overlay run returns over a non-empty sentiment file is
\* the sorted sentiment table itself if the price table is empty; else it has
\* one row per sentiment row, in that order, with btc_close the close of the
\* bar of the row's date, or null where there is no such bar.
C30_LeftJoin ==
    (ps_entry = "run_price_sentiment_pipeline" /\ ps_pc = "returned" /\ ps_records # <<>>) =>
        IF px_table = <<>> THEN ps_out = ps_df
        ELSE /\ Len(ps_out) = Len(ps_df)
             /\ \A i \in DOMAIN ps_df :
                    /\ ps_out[i].source = ps_df[i].source
                    /\ ps_out[i].date = ps_df[i].date
                    /\ ps_out[i].btc_close = CloseOn(ps_df[i].date)

\* C31: the list annotate() returned for a batch equals, for every split of the
\* batch in two, the result for the first part followed by the result for the
\* second, and its i-th record is the annotation of the i-th text alone under
\* the service's thresholds.
C31_BatchIndependent ==
    batch_out # None =>
        /\ \A k \in 0 .. Len(texts) :
               batch_out.list = AnnotateAll(SubSeq(texts, 1, k), svc.low, svc.high)
                                 \o AnnotateAll(SubSeq(texts, k + 1, Len(texts)), svc.low, svc.high)
        /\ Len(batch_out.list) = Len(texts)
        /\ \A i \in DOMAIN texts : batch_out.list[i] = Annotate(texts[i], svc.low, svc.high)

\* a batch of three texts of different polarity has been scored
C31_Witness ==
    /\ batch_out # None
    /\ Len(texts) = MaxTexts
    /\ texts[1] < 0 /\ texts[2] = 0 /\ texts[3] > 0
    /\ batch_out.list[1].label = "negative"
    /\ batch_out.list[3].label = "positive"

\* C32: a run of the command line that has ended has ended normally, and the
\* last line it printed is the number of daily records run_ingest_pipeline
\* returned.
C32_ReportsCount ==
    cli_pc \in {"done", "raised"} =>
        /\ cli_pc = "done"
        /\ cli_echo[Len(cli_echo)].kind = "processed"
        /\ cli_echo[Len(cli_echo)].count = Len(cli_daily)

\* the labels that are most frequent among the records J
TopLabels(J) ==
    LET n(l) == Cardinality({j \in J : records[j].label = l})
    IN {l \in {records[j].label : j \in J} : \A j \in J : n(records[j].label) <= n(l)}

\* C33: the label of every row that has records is one of the most frequent
\* labels of its (source, day) group, and it is "neutral" whenever several
\* labels tie for the highest frequency and "neutral" is one of them.
C33_TieGivesNeutral ==
    Called =>
        \A i \in DOMAIN out :
            out[i].count > 0 =>
                LET top == TopLabels(CellRecords(out[i].source, out[i].date.day))
                IN /\ out[i].label \in top
                   /\ (Cardinality(top) > 1 /\ "neutral" \in top) => out[i].label = "neutral"

\* the (source, day) groups present in the records
Groups == {<<records[j].source, records[j].date.day>> : j \in DOMAIN records}

\* C34: a call with fill_missing=False, or with a window end missing, returns
\* one row for each (source, day) group of the records, no other row, and no
\* row with count = 0.
C34_NoFillOneRowPerGroup ==
    (Called /\ ~FillCall) =>
        /\ Len(out) = Cardinality(Groups)
        /\ \A g \in Groups : Cardinality(RowsAt(g[1], g[2])) = 1
        /\ \A i \in DOMAIN out :
               /\ <<out[i].source, out[i].date.day>> \in Groups
               /\ out[i].count > 0

\* fill_missing=False with a two-day window given and records on day 0 only:
\* day 1 gets no row
C34_Witness ==
    /\ Called
    /\ ~call.fill_missing
    /\ call.start_date = DT(0, DayStart) /\ call.end_date = DT(1, DayEnd)
    /\ Len(records) = 2
    /\ \A j \in DOMAIN records : records[j].date.day = 0 /\ records[j].source = "telegram"
    /\ Len(out) = 1
    /\ out[1].count = 2

\* C35: a gap-filling call given no `sources` returns rows for exactly the
\* sources that occur in the records, and for "telegram" alone when the record
\* list is empty: then one row per day of the window, each a no_data row.
C35_DefaultSources ==
    (FillCall /\ call.sources = <<>>) =>
        /\ {out[i].source : i \in DOMAIN out}
               = IF records # <<>> THEN {records[j].source : j \in DOMAIN records}
                 ELSE {"telegram"}
        /\ records = <<>> =>
               /\ Len(out) = call.end_date.day - call.start_date.day + 1
               /\ \A i \in DOMAIN out :
                      /\ out[i].source = "telegram"
                      /\ out[i].date = DT(call.start_date.day + i - 1, DayStart)
                      /\ out[i].count = 0
                      /\ out[i].label = "no_data"

\* no record, no `sources`, a window of two days: two no_data rows of telegram
C35_Witness ==
    /\ FillCall
    /\ call.sources = <<>>
    /\ records = <<>>
    /\ Len(out) = 2
    /\ out[1].source = "telegram" /\ out[2].source = "telegram"
    /\ out[2].count = 0

\* the sum of `count` over a table
RECURSIVE CountSum(_)
CountSum(rows) == IF rows = <<>> THEN 0 ELSE Head(rows).count + CountSum(Tail(rows))

\* a record whose (source, day) is a cell of the grid of a gap-filling call
InGrid(r) ==
    /\ r.source \in GridSources
    /\ r.date.day \in call.start_date.day .. call.end_date.day

\* C39: the counts of the returned rows add up to the number of records, and
\* under gap filling to the number of records whose (source, day) is in the
\* grid; with a window and a source list given, the table is the one the call
\* returns for the records of the grid alone.
C39_RecordConservation ==
    Called =>
        IF FillCall
        THEN /\ CountSum(out) = Cardinality({j \in DOMAIN records : InGrid(records[j])})
             /\ call.sources # <<>> =>
                    out = Aggregate(SelectSeq(records, InGrid), call.start_date, call.end_date,
                                    call.fill_missing, NeutralFill, "no_data", call.sources)
        ELSE CountSum(out) = Len(records)

\* three records, one in the grid, one of another day, one of another source
C39_Witness ==
    /\ FillCall
    /\ call.sources = <<"telegram">>
    /\ call.start_date.day = 0 /\ call.end_date.day = 0
    /\ Len(records) = 3
    /\ \E j \in DOMAIN records : records[j].source = "twitter"
    /\ \E j \in DOMAIN records : records[j].source = "telegram" /\ records[j].date.day = 1
    /\ CountSum(out) = 1

\* the fetch calls of the run: those made, then those still to be made
PlCalls == pl_coros \o pl_pending

C38_EmptyRunGivesNoDataRows ==
    (pl_fn = "run_simple_analysis" /\ PlEnded /\ pl_messages = <<>>) =>
        /\ pl_pc = "returned"
        /\ LET days == DateRange(NormDay(PlWindow[1]), NormDay(PlWindow[2]))
           IN /\ Len(pl_daily) = Len(days)
              /\ Len(days) = 1
              /\ \A i \in DOMAIN pl_daily :
                     pl_daily[i] = [date |-> days[i], source |-> "telegram",
                                    avg_score |-> [num |-> 50, den |-> 1],
                                    count |-> 0, label |-> "no_data"]

\* C37: fetch_recent_tweets never ends by raising; the list it returns is the
\* conversion of the tweets received before it ended, in order, it has no more
\* than `limit` entries, and without a failure it has min(limit, available)
\* entries.
C37_FetchNeverRaises ==
    /\ x_pc # "raised"
    /\ Len(x_tweets) <= x_limit
    /\ x_pc = "returned" =>
           /\ x_tweets = [i \in 1 .. x_pos |-> ToTweetData(x_feed[i])]
           /\ x_err = None =>
                  Len(x_tweets) = IF x_limit < Len(x_feed) THEN x_limit ELSE Len(x_feed)

\* the transport failed after two of three tweets, below the limit: the two
\* are returned
C37_Witness ==
    /\ x_pc = "returned"
    /\ x_err = [kind |-> "TweepyException"]
    /\ Len(x_feed) = 3
    /\ x_limit = 3
    /\ Len(x_tweets) = 2
    /\ x_tweets[2].like_count = 0

\* C40: the step that ends a fetch in failure (the last allowed pass failed, or
\* the rate-limit wait is beyond the ceiling) returns a list that starts with
\* all the messages received so far, and so does every failed pass that is
\* retried; fetch_messages_for_channel adds the batch in hand to them.
C40_ReceivedKept ==
    [][/\ (tg_pc = "iter" /\ tg_retry' = tg_retry + 1) =>
              /\ IsPrefix(tg_results, tg_results')
              /\ ~TimeRange => tg_results' = tg_results \o tg_batch
       /\ tg_pc = "sleep" => tg_results' = tg_results]_vars

\* a time-range fetch that received a full batch of two messages and then
\* failed on its last pass returns them
C40_Witness ==
    /\ TimeRange
    /\ tg_pc = "returned"
    /\ tg_retry = MaxRetries
    /\ tg_err # None /\ tg_err.kind \in {"error", "flood"}
    /\ tg_batch_size = 2
    /\ Len(tg_results) >= 2

====
